---- MODULE Spec2Model ----
(***************************************************************************)
(* Cycle-based compressor (0^m 1^j codes, header [K][s1]...[sK] + bit      *)
(* payload), modelled from codes/c/cycle_based_compressor.c.               *)
(*                                                                         *)
(* C arrays are functions over 0..n-1.  A text handed to the compressor is *)
(* the caller's bytes followed by the terminating NUL of a C string.       *)
(***************************************************************************)
EXTENDS Integers, Sequences, FiniteSets, TLC

\* ------------------------------------------------------------------ bounds
\* longest caller message drawn exhaustively
MaxLen == 3
\* number of distinct non-zero byte values the short messages draw from
NSyms == 3
\* raw decoder inputs: largest header count byte, most payload bytes, and
\* the largest original_len below "more than the payload can hold"
MaxRawK == 2
MaxPayload == 2
MaxRawLen == 2
\* rank sequences: every sequence over all ranks up to this K ...
PermK == 3
\* ... and, for larger K, sequences of this many ranks among first and last
MaxRanks == 2
\* bit writer on its own: number of bits appended
MaxBits == 10

\* ------------------------------------------------------- program constants
ALPHABET_SIZE == 256
\* the largest K the one-byte header admits (compress rejects K > 255)
MAX_K == 255
\* initial capacity compress gives its BitWriter
BW_INITIAL_CAPACITY == 64

Byte == 0 .. (ALPHABET_SIZE - 1)

\* ----------------------------------------------------------- array helpers
Length(a) == Cardinality(DOMAIN a)
Empty == [i \in {} |-> 0]
\* a with v stored at index n = Length(a)
Push(a, v) == [i \in 0 .. Length(a) |-> IF i < Length(a) THEN a[i] ELSE v]
Concat(a, b) ==
    [i \in 0 .. (Length(a) + Length(b) - 1) |->
        IF i < Length(a) THEN a[i] ELSE b[i - Length(a)]]
Prefix(a, n) == [i \in 0 .. (n - 1) |-> a[i]]
Store(a, i, v) == [k \in DOMAIN a \cup {i} |-> IF k = i THEN v ELSE a[k]]

RECURSIVE Iterate(_, _, _)
\* n executions of a loop body F, by halving so that the evaluation stays shallow
Iterate(F(_), s, n) ==
    IF n <= 0 THEN s
    ELSE IF n = 1 THEN F(s)
    ELSE LET h == n \div 2
             mid == Iterate(F, s, h)
         IN IF mid = mid THEN Iterate(F, mid, n - h) ELSE s

\* strlen: index of the first NUL of the text followed by its terminator
strlen(text) ==
    IF \E i \in DOMAIN text : text[i] = 0
    THEN CHOOSE i \in DOMAIN text :
             text[i] = 0 /\ \A k \in 0 .. (i - 1) : text[k] # 0
    ELSE Length(text)

\* the C string held in a buffer that contains a NUL
CString(buf) == Prefix(buf, strlen(buf))

\* ---------------------------------------------------------------- BitWriter
bw_init(capacity) ==
    [data |-> [i \in 0 .. (capacity - 1) |-> 0],
     capacity |-> capacity, size |-> 0, bit_pos |-> 0]

bw_ensure_space(bw) ==
    IF bw.size >= bw.capacity
    THEN LET dbl == bw.capacity * 2
             new_cap == IF dbl < 16 THEN 16 ELSE dbl
         IN [bw EXCEPT
               !.data = [i \in 0 .. (new_cap - 1) |->
                            IF i < bw.capacity THEN bw.data[i] ELSE 0],
               !.capacity = new_cap]
    ELSE bw

\* byte | (1 << sh)
SetBit(byte, sh) ==
    IF (byte \div (2 ^ sh)) % 2 = 1 THEN byte ELSE byte + 2 ^ sh

\* faulty variant: the least significant bit first
bw_mask_shift_lsb_first(bit_pos) == bit_pos

\* shift of the mask 1 << (7 - bit_pos): the most significant bit first
bw_mask_shift(bit_pos) == 7 - bit_pos

bw_put_bit(bw, bit) ==
    LET b1 == IF bw.size = 0 /\ bw.bit_pos = 0
              THEN LET e == bw_ensure_space(bw)
                   IN [e EXCEPT !.size = 1, !.data[0] = 0]
              ELSE bw
        b2 == IF b1.bit_pos = 8
              THEN LET e == bw_ensure_space(b1)
                   IN [e EXCEPT !.data[e.size] = 0,
                                !.size = e.size + 1, !.bit_pos = 0]
              ELSE b1
        b3 == IF bit # 0
              THEN [b2 EXCEPT !.data[b2.size - 1] =
                        SetBit(b2.data[b2.size - 1], bw_mask_shift(b2.bit_pos))]
              ELSE b2
    IN [b3 EXCEPT !.bit_pos = b3.bit_pos + 1]

\* n calls of bw_put_bit(bw, bit): one for loop of bw_put_cycle
bw_put_run(bw, bit, n) == Iterate(LAMBDA b : bw_put_bit(b, bit), bw, n)

bw_put_cycle(bw, m, j) == bw_put_run(bw_put_run(bw, 0, m), 1, j)

\* ------------------------------------------------------- frequency counting
count_character_frequency(text, freq_table) ==
    LET length == strlen(text)
    IN [c \in Byte |->
           freq_table[c] + Cardinality({i \in 0 .. (length - 1) : text[i] = c})]

\* ------------------------------------------------------------------ sorting
\* faulty variant: ties broken by descending symbol
compare_codeentry_desc_symbol(ca, cb) ==
    IF ca.freq > cb.freq THEN -1
    ELSE IF ca.freq < cb.freq THEN 1
    ELSE IF ca.symbol > cb.symbol THEN -1
    ELSE IF ca.symbol < cb.symbol THEN 1
    ELSE 0

compare_codeentry(ca, cb) ==
    IF ca.freq > cb.freq THEN -1
    ELSE IF ca.freq < cb.freq THEN 1
    ELSE IF ca.symbol < cb.symbol THEN -1
    ELSE IF ca.symbol > cb.symbol THEN 1
    ELSE 0

\* qsort(codes, K, ..., compare_codeentry): the entries in the comparator's
\* order (a strict total order here: the symbols are pairwise distinct)
qsort(codes, K) ==
    LET pos == [i \in 0 .. (K - 1) |->
                   Cardinality({k \in 0 .. (K - 1) :
                                   compare_codeentry(codes[k], codes[i]) < 0})]
    IN [r \in 0 .. (K - 1) |->
           codes[CHOOSE i \in 0 .. (K - 1) : pos[i] = r]]

\* --------------------------------------------------------- cycle generation
\* one evaluation of the loop conditions of generate_cycles_for_codes at
\* s = (codes, count, L, m): the body of the for loop, or L++ and the for
\* loop's initialisation m = L - 1, or nothing once count = K
GenStep(K, s) ==
    IF s.count >= K THEN s
    ELSE IF s.m >= 1
         THEN [s EXCEPT !.codes[s.count].m = s.m,
                        !.codes[s.count].j = s.L - s.m,
                        !.count = s.count + 1, !.m = s.m - 1]
         ELSE [s EXCEPT !.L = s.L + 1, !.m = s.L]

\* faulty variant: the for loop runs down to m = 0
GenStepFromZero(K, s) ==
    IF s.count >= K THEN s
    ELSE IF s.m >= 0
         THEN [s EXCEPT !.codes[s.count].m = s.m,
                        !.codes[s.count].j = s.L - s.m,
                        !.count = s.count + 1, !.m = s.m - 1]
         ELSE [s EXCEPT !.L = s.L + 1, !.m = s.L]

\* faulty variant: j = L instead of j = L - m
GenStepJIsL(K, s) ==
    IF s.count >= K THEN s
    ELSE IF s.m >= 1
         THEN [s EXCEPT !.codes[s.count].m = s.m,
                        !.codes[s.count].j = s.L,
                        !.count = s.count + 1, !.m = s.m - 1]
         ELSE [s EXCEPT !.L = s.L + 1, !.m = s.L]

\* count = 0, L = 2, and the first for loop's m = L - 1
GenStart(codes) == [codes |-> codes, count |-> 0, L |-> 2, m |-> 1]
\* K bodies and at most K + 2 changes of L end the loops
GenFuel(K) == 2 * K + 2

\* faulty variants of generate_cycles_for_codes
generate_cycles_m_from_zero(codes, K) ==
    Iterate(LAMBDA s : GenStepFromZero(K, s), GenStart(codes), GenFuel(K)).codes
generate_cycles_j_is_L(codes, K) ==
    Iterate(LAMBDA s : GenStepJIsL(K, s), GenStart(codes), GenFuel(K)).codes

generate_cycles_for_codes(codes, K) ==
    Iterate(LAMBDA s : GenStep(K, s), GenStart(codes), GenFuel(K)).codes

\* -------------------------------------------------------------- compression
\* lines 186-194, one value of c: an entry when freq_table[c] > 0
BuildCodesStep(freq_table, s) ==
    [c |-> s.c + 1,
     codes |-> IF freq_table[s.c] > 0
               THEN Push(s.codes, [symbol |-> s.c, freq |-> freq_table[s.c],
                                   m |-> 0, j |-> 0])
               ELSE s.codes]

BuildCodes(freq_table) ==
    Iterate(LAMBDA s : BuildCodesStep(freq_table, s),
            [c |-> 0, codes |-> Empty], ALPHABET_SIZE).codes

\* lines 216-220
BuildLut(codes, K) ==
    [c \in Byte |->
        IF \E i \in 0 .. (K - 1) : codes[i].symbol = c
        THEN CHOOSE i \in 0 .. (K - 1) : codes[i].symbol = c
        ELSE -1]

\* lines 227-235, one value of i; exit when the symbol is not in the LUT
WritePayloadStep(text, lut, codes, s) ==
    IF s.exit THEN s
    ELSE LET idx == lut[text[s.i]]
         IN IF idx < 0 THEN [s EXCEPT !.exit = TRUE]
            ELSE [s EXCEPT !.i = s.i + 1,
                           !.bw = bw_put_cycle(s.bw, codes[idx].m, codes[idx].j)]

WritePayload(text, len, lut, codes, bw) ==
    Iterate(LAMBDA s : WritePayloadStep(text, lut, codes, s),
            [i |-> 0, bw |-> bw, exit |-> FALSE], len)

\* the whole of compress_cycle_based: what the caller gets back, or "exit"
\* when the process was terminated by exit(1)
compress_cycle_based(text) ==
    LET freq_table == count_character_frequency(text, [c \in Byte |-> 0])
        codes0 == BuildCodes(freq_table)
        K == Length(codes0)
    IN IF K = 0
       THEN [outcome |-> "return", out_data |-> Empty, out_size |-> 0,
             stderr |-> <<>>]
       ELSE IF K > MAX_K
       THEN [outcome |-> "exit", out_data |-> Empty, out_size |-> 0,
             stderr |-> <<"Error: more than 255 distinct symbols">>]
       ELSE LET codes == generate_cycles_for_codes(qsort(codes0, K), K)
                lut == BuildLut(codes, K)
                w == WritePayload(text, strlen(text), lut, codes,
                                  bw_init(BW_INITIAL_CAPACITY))
                header_size == 1 + K
                header == [i \in 0 .. K |->
                              IF i = 0 THEN K ELSE codes[i - 1].symbol]
            IN IF w.exit
               THEN [outcome |-> "exit", out_data |-> Empty, out_size |-> 0,
                     stderr |-> <<"Internal error: symbol not found in LUT">>]
               ELSE [outcome |-> "return",
                     out_data |-> Concat(header, Prefix(w.bw.data, w.bw.size)),
                     out_size |-> header_size + w.bw.size,
                     stderr |-> <<>>]

\* ------------------------------------------------------------ decompression
\* lines 297-302: the K symbols of the header, m = j = freq = 0
RecoverSymbols(comp_data, K) ==
    [i \in 0 .. (K - 1) |->
        [symbol |-> comp_data[1 + i], freq |-> 0, m |-> 0, j |-> 0]]

\* faulty variant: <= for <
more_bits_inclusive(bit_index, payload_bytes) == bit_index <= payload_bytes * 8

\* bit_index < payload_bytes * 8, the guard of the three while loops
more_bits(bit_index, payload_bytes) == bit_index < payload_bytes * 8

\* (payload[byte_idx] >> (7 - bit_in_byte)) & 1 with payload = comp_data+1+K:
\* the values the read can give; a read outside the buffer is undefined and
\* may give either bit
ReadBit(comp_data, K, bit_index) ==
    LET byte_idx == bit_index \div 8
        bit_in_byte == bit_index % 8
        at == 1 + K + byte_idx
    IN IF at \in DOMAIN comp_data
       THEN {(comp_data[at] \div (2 ^ (7 - bit_in_byte))) % 2}
       ELSE {0, 1}

\* faulty variant: the first entry of the same length m + j
find_code_by_length(codes, K, m, j) ==
    IF \E i \in 0 .. (K - 1) : codes[i].m + codes[i].j = m + j
    THEN CHOOSE i \in 0 .. (K - 1) :
             /\ codes[i].m + codes[i].j = m + j
             /\ \A k \in 0 .. (i - 1) : codes[k].m + codes[k].j # m + j
    ELSE -1

\* lines 356-362: the first i with codes[i] = (m, j), or -1
find_code(codes, K, m, j) ==
    IF \E i \in 0 .. (K - 1) : codes[i].m = m /\ codes[i].j = j
    THEN CHOOSE i \in 0 .. (K - 1) :
             /\ codes[i].m = m /\ codes[i].j = j
             /\ \A k \in 0 .. (i - 1) : ~(codes[k].m = m /\ codes[k].j = j)
    ELSE -1

\* faulty variant: original_len is not consulted
outer_guard_no_length(out_pos, original_len, bit_index, payload_bytes) ==
    more_bits(bit_index, payload_bytes)

\* line 314: out_pos < original_len && bit_index < payload_bytes * 8
outer_guard(out_pos, original_len, bit_index, payload_bytes) ==
    out_pos < original_len /\ more_bits(bit_index, payload_bytes)

\* -------------------------------------------------------------------- state
VARIABLES
    src,           \* which caller drives the run: "text", "raw", "ranks", "bw"
    pc,            \* position of the run
    text,          \* the caller's message (the bytes before the terminator)
    comp_data,     \* compressed buffer
    comp_size,     \* its size as passed to decompress_cycle_based
    original_len,  \* original_len as passed to decompress_cycle_based
    K, codes, payload_bytes, bit_index, out_pos, m, j,   \* decoder locals
    out_text,      \* the bytes decompress_cycle_based has written to out_text
    rd,            \* index of the last payload bit read, -1 before any read
    ret,           \* what the last call returned to its caller
    stderr,        \* lines printed to stderr
    tK, tcodes, ranks,   \* a code table of K entries and the ranks written
    bw,            \* a BitWriter
    nbits          \* bits appended to bw by the bit writer's own caller

vars == <<src, pc, text, comp_data, comp_size, original_len, K, codes,
          payload_bytes, bit_index, out_pos, m, j, out_text, rd, ret, stderr,
          tK, tcodes, ranks, bw, nbits>>

decvars == <<K, codes, payload_bytes, bit_index, out_pos, m, j, out_text, rd>>
tablevars == <<tK, tcodes, ranks, bw, nbits>>
callvars == <<src, text, comp_data, comp_size, original_len>>

\* ------------------------------------------------------------------ inputs
\* byte values of the short messages: NUL and NSyms letters from 'a'
Sym == {0} \cup (97 .. (97 + NSyms - 1))
ShortTexts == UNION {[0 .. (n - 1) -> Sym] : n \in 0 .. MaxLen}
\* messages holding every one of the 256 byte values once, the NUL at index
\* 0, 2 and 16
FullTexts == {[i \in 0 .. (ALPHABET_SIZE - 1) |-> (i + s) % ALPHABET_SIZE] :
                 s \in {0, ALPHABET_SIZE - 2, ALPHABET_SIZE - 16}}
\* the first message main() compresses: full_text cut to target_sizes[0]
DemoString == <<73, 110, 32, 119, 105, 114, 101, 108, 101, 115, 115, 32, 115, 101, 110, 115,
                111, 114, 32, 110, 101, 116, 119, 111, 114, 107, 115, 44, 32, 116, 104, 101>>
DemoText == [i \in 0 .. (Len(DemoString) - 1) |-> DemoString[i + 1]]
Texts == ShortTexts \cup FullTexts \cup {DemoText}
\* original_len: everything up to one more than the length of a short
\* message, one less, equal and one more for a long one
Lengths(t) ==
    IF Length(t) <= MaxLen THEN 0 .. (Length(t) + 1)
    ELSE (Length(t) - 1) .. (Length(t) + 1)

\* payload bytes of the raw decoder inputs: 00000000, 01010010, 01101100,
\* 11111111
PayloadBytes == {0, 82, 108, 255}
RawHeader(k) == [i \in 0 .. k |-> IF i = 0 THEN k ELSE 96 + i]
\* a count byte k, k symbol bytes, any payload; a comp_size below the
\* buffer's length cuts the payload or the header short
RawBuffers ==
    {Concat(RawHeader(k), p) :
        k \in 0 .. MaxRawK,
        p \in UNION {[0 .. (l - 1) -> PayloadBytes] : l \in 0 .. MaxPayload}}
RawLengths == (-1 .. MaxRawLen) \cup {8 * MaxPayload}

NoWriter == bw_init(0)

DecInit ==
    /\ K = 0 /\ codes = Empty /\ payload_bytes = 0 /\ bit_index = 0
    /\ out_pos = 0 /\ m = 0 /\ j = 0 /\ out_text = Empty /\ rd = -1
    /\ ret = "none" /\ stderr = <<>>

InitText ==
    /\ src = "text" /\ pc = "compress"
    /\ text \in Texts
    /\ original_len \in Lengths(text)
    /\ comp_data = Empty /\ comp_size = 0
    /\ DecInit
    /\ tK = 0 /\ tcodes = Empty /\ ranks = Empty /\ bw = NoWriter /\ nbits = 0

InitRaw ==
    /\ src = "raw" /\ pc = "call"
    /\ text = Empty
    /\ comp_data \in RawBuffers
    /\ comp_size \in -1 .. Length(comp_data)
    /\ original_len \in RawLengths
    /\ DecInit
    /\ tK = 0 /\ tcodes = Empty /\ ranks = Empty /\ bw = NoWriter /\ nbits = 0

Init == InitText \/ InitRaw

\* ----------------------------------------------------------------- actions
\* the caller of main(): compress_cycle_based(example, &compressed, &comp_size)
c_compress ==
    /\ pc = "compress"
    /\ LET r == compress_cycle_based(text)
       IN /\ pc' = IF r.outcome = "exit" THEN "exit" ELSE "call"
          /\ comp_data' = r.out_data
          /\ comp_size' = r.out_size
          /\ stderr' = stderr \o r.stderr
          /\ ret' = IF r.outcome = "exit" THEN "none" ELSE "void"
    /\ UNCHANGED <<src, text, original_len, decvars, tablevars>>

\* lines 283-312: the size and header checks, the table, the cursors
d_enter ==
    /\ pc = "call"
    /\ IF comp_size <= 0
       THEN /\ out_text' = Store(out_text, 0, 0)
            /\ pc' = "ret" /\ ret' = "void"
            /\ UNCHANGED <<K, codes, payload_bytes, bit_index, out_pos, stderr>>
       ELSE LET k == comp_data[0]
            IN IF k <= 0 \/ comp_size < 1 + k
               THEN /\ K' = k
                    /\ stderr' = Append(stderr, "Invalid compressed data")
                    /\ out_text' = Store(out_text, 0, 0)
                    /\ pc' = "ret" /\ ret' = "void"
                    /\ UNCHANGED <<codes, payload_bytes, bit_index, out_pos>>
               ELSE /\ K' = k
                    /\ codes' = generate_cycles_for_codes(
                                    RecoverSymbols(comp_data, k), k)
                    /\ payload_bytes' = comp_size - (1 + k)
                    /\ bit_index' = 0
                    /\ out_pos' = 0
                    /\ pc' = "while"
                    /\ UNCHANGED <<out_text, stderr, ret>>
    /\ UNCHANGED <<callvars, m, j, rd, tablevars>>

\* line 314-317: the guard of the outer loop, then m = 0, j = 0
d_while ==
    /\ pc = "while"
    /\ IF outer_guard(out_pos, original_len, bit_index, payload_bytes)
       THEN /\ m' = 0 /\ j' = 0 /\ pc' = "zeros"
       ELSE /\ pc' = "term" /\ UNCHANGED <<m, j>>
    /\ UNCHANGED <<callvars, K, codes, payload_bytes, bit_index, out_pos,
                   out_text, rd, ret, stderr, tablevars>>

\* lines 320-333: one turn of the loop that counts zeros
d_zeros ==
    /\ pc = "zeros"
    /\ IF more_bits(bit_index, payload_bytes)
       THEN \E bit \in ReadBit(comp_data, K, bit_index) :
               /\ rd' = bit_index
               /\ bit_index' = bit_index + 1
               /\ IF bit = 0
                  THEN m' = m + 1 /\ j' = j /\ pc' = "zeros"
                  ELSE m' = m /\ j' = 1 /\ pc' = "check"
       ELSE /\ pc' = "check"
            /\ UNCHANGED <<rd, bit_index, m, j>>
    /\ UNCHANGED <<callvars, K, codes, payload_bytes, out_pos, out_text,
                   ret, stderr, tablevars>>

\* lines 335-338: no one bit was found, the stream is truncated
d_check ==
    /\ pc = "check"
    /\ pc' = IF j = 0 THEN "term" ELSE "ones"
    /\ UNCHANGED <<callvars, decvars, ret, stderr, tablevars>>

\* lines 341-353: one turn of the loop that counts ones
d_ones ==
    /\ pc = "ones"
    /\ IF more_bits(bit_index, payload_bytes)
       THEN \E bit \in ReadBit(comp_data, K, bit_index) :
               /\ rd' = bit_index
               /\ IF bit = 1
                  THEN j' = j + 1 /\ bit_index' = bit_index + 1 /\ pc' = "ones"
                  ELSE j' = j /\ bit_index' = bit_index /\ pc' = "lookup"
       ELSE /\ pc' = "lookup"
            /\ UNCHANGED <<rd, bit_index, j>>
    /\ UNCHANGED <<callvars, K, codes, payload_bytes, out_pos, out_text, m,
                   ret, stderr, tablevars>>

\* lines 355-369: the search of (m, j), then the symbol or the break
d_lookup ==
    /\ pc = "lookup"
    /\ LET found == find_code(codes, K, m, j)
       IN IF found < 0
          THEN /\ stderr' = Append(stderr, "Pair not found in code table")
               /\ pc' = "term"
               /\ UNCHANGED <<out_text, out_pos>>
          ELSE /\ out_text' = Store(out_text, out_pos, codes[found].symbol)
               /\ out_pos' = out_pos + 1
               /\ pc' = "while"
               /\ UNCHANGED stderr
    /\ UNCHANGED <<callvars, K, codes, payload_bytes, bit_index, m, j, rd,
                   ret, tablevars>>

\* line 372: the terminator, and the return
d_term ==
    /\ pc = "term"
    /\ out_text' = Store(out_text, out_pos, 0)
    /\ pc' = "ret" /\ ret' = "void"
    /\ UNCHANGED <<callvars, K, codes, payload_bytes, bit_index, out_pos,
                   m, j, rd, stderr, tablevars>>

Decompress ==
    d_enter \/ d_while \/ d_zeros \/ d_check \/ d_ones \/ d_lookup \/ d_term

Next == c_compress \/ Decompress

Spec == Init /\ [][Next]_vars

\* ------------------------------------------------- a table and its ranks
\* a caller that builds the table of tK entries, writes the codes of a
\* sequence of ranks with bw_put_cycle, and hands header and payload to
\* decompress_cycle_based; the symbol of rank r is r + 1
InitRanks ==
    /\ src = "ranks" /\ pc = "gen"
    /\ tK \in 1 .. MAX_K
    /\ \E p \in {0, 1} :
          tcodes = [i \in 0 .. (tK - 1) |->
                       [symbol |-> i + 1, freq |-> p * (tK - i),
                        m |-> 0, j |-> 0]]
    /\ ranks = Empty /\ bw = NoWriter /\ nbits = 0
    /\ text = Empty /\ comp_data = Empty /\ comp_size = 0 /\ original_len = 0
    /\ DecInit

r_generate ==
    /\ pc = "gen"
    /\ tcodes' = generate_cycles_for_codes(tcodes, tK)
    /\ bw' = bw_init(BW_INITIAL_CAPACITY)
    /\ pc' = "put"
    /\ UNCHANGED <<callvars, decvars, ret, stderr, tK, ranks, nbits>>

\* the ranks a sequence may go on with: all of them while tK <= PermK, the
\* first and the last one otherwise
NextRanks ==
    IF tK <= PermK
    THEN IF Length(ranks) <= PermK THEN 0 .. (tK - 1) ELSE {}
    ELSE IF Length(ranks) < MaxRanks THEN {0, tK - 1} ELSE {}

r_put ==
    /\ pc = "put"
    /\ \E r \in NextRanks :
          /\ bw' = bw_put_cycle(bw, tcodes[r].m, tcodes[r].j)
          /\ ranks' = Push(ranks, r)
    /\ UNCHANGED <<callvars, pc, decvars, ret, stderr, tK, tcodes, nbits>>

\* header and payload assembled as lines 238-256 do; the table and the
\* writer are gone once the buffer is built
r_finish ==
    /\ pc = "put"
    /\ comp_data' = Concat([i \in 0 .. tK |->
                               IF i = 0 THEN tK ELSE tcodes[i - 1].symbol],
                           Prefix(bw.data, bw.size))
    /\ comp_size' = 1 + tK + bw.size
    /\ original_len' = Length(ranks)
    /\ tcodes' = Empty /\ bw' = NoWriter
    /\ pc' = "call"
    /\ UNCHANGED <<src, text, decvars, ret, stderr, tK, ranks, nbits>>

NextRanksSpec == r_generate \/ r_put \/ r_finish \/ Decompress

SpecRanks == InitRanks /\ [][NextRanksSpec]_vars

\* ------------------------------------------------- the bit writer alone
InitWriter ==
    /\ src = "bw" /\ pc = "new"
    /\ bw = NoWriter /\ nbits = 0
    /\ tK = 0 /\ tcodes = Empty /\ ranks = Empty
    /\ text = Empty /\ comp_data = Empty /\ comp_size = 0 /\ original_len = 0
    /\ DecInit

b_init ==
    /\ pc = "new"
    /\ \E capacity \in {0, 1, BW_INITIAL_CAPACITY} : bw' = bw_init(capacity)
    /\ pc' = "open"
    /\ UNCHANGED <<callvars, decvars, ret, stderr, tK, tcodes, ranks, nbits>>

b_put_bit ==
    /\ pc = "open" /\ nbits < MaxBits
    /\ \E bit \in {0, 1} : bw' = bw_put_bit(bw, bit)
    /\ nbits' = nbits + 1
    /\ UNCHANGED <<callvars, pc, decvars, ret, stderr, tK, tcodes, ranks>>

b_put_cycle ==
    /\ pc = "open"
    /\ \E mm \in 0 .. 3, jj \in 0 .. 3 :
          /\ nbits + mm + jj <= MaxBits
          /\ bw' = bw_put_cycle(bw, mm, jj)
          /\ nbits' = nbits + mm + jj
    /\ UNCHANGED <<callvars, pc, decvars, ret, stderr, tK, tcodes, ranks>>

NextWriter == b_init \/ b_put_bit \/ b_put_cycle

SpecWriter == InitWriter /\ [][NextWriter]_vars

\* ------------------------------------------------------------- properties
Range(a) == {a[i] : i \in DOMAIN a}
Min(a, b) == IF a < b THEN a ELSE b
Max(a, b) == IF a > b THEN a ELSE b
\* the message decompress_cycle_based hands back: the C string in out_text
Recovered == CString(out_text)
\* number of occurrences of byte c in the caller's message
Count(c) == Cardinality({i \in DOMAIN text : text[i] = c})
Distinct == Cardinality(Range(text))
NoNul == 0 \notin Range(text)
Compressed == src = "text" /\ pc \notin {"compress", "exit"}
Decoded == pc = "ret" /\ src \in {"text", "raw", "ranks"}
HeaderSymbols == {comp_data[i] : i \in 1 .. Distinct}
\* a comes before b in rank order
RankBefore(a, b) == Count(a) > Count(b) \/ (Count(a) = Count(b) /\ a < b)

\* the header of the compressed buffer is K and the K distinct symbols of
\* the message in rank order
HeaderShape ==
    /\ comp_size >= 1 + Distinct
    /\ Length(comp_data) = comp_size
    /\ comp_data[0] = Distinct
    /\ HeaderSymbols = Range(text)
    /\ \A r \in 1 .. (Distinct - 1) : RankBefore(comp_data[r], comp_data[r + 1])

\* rank of symbol c according to the header
RankOf(c) == (CHOOSE i \in 1 .. Distinct : comp_data[i] = c) - 1
\* the code table of K entries, built from entries that carry no frequency
Canonical(k) ==
    generate_cycles_for_codes(
        [i \in 0 .. (k - 1) |-> [symbol |-> 0, freq |-> 0, m |-> 0, j |-> 0]], k)
\* m zeros then j ones
CycleBits(mm, jj) == [i \in 1 .. (mm + jj) |-> IF i <= mm THEN 0 ELSE 1]
\* the codes of the message's symbols, one after another, as a sequence
MessageBits ==
    LET table == Canonical(Distinct)
    IN Iterate(LAMBDA s :
                   [i |-> s.i + 1,
                    bits |-> s.bits \o CycleBits(table[RankOf(text[s.i])].m,
                                                 table[RankOf(text[s.i])].j)],
               [i |-> 0, bits |-> <<>>], Length(text)).bits
BitAt(bits, p) == IF p + 1 <= Len(bits) THEN bits[p + 1] ELSE 0
\* byte k of the MSB-first packing of bits, zero bits after the last one
PackedByte(bits, k) ==
    128 * BitAt(bits, 8 * k) + 64 * BitAt(bits, 8 * k + 1)
    + 32 * BitAt(bits, 8 * k + 2) + 16 * BitAt(bits, 8 * k + 3)
    + 8 * BitAt(bits, 8 * k + 4) + 4 * BitAt(bits, 8 * k + 5)
    + 2 * BitAt(bits, 8 * k + 6) + BitAt(bits, 8 * k + 7)
PayloadLayout ==
    LET bits == MessageBits
        nbytes == (Len(bits) + 7) \div 8
    IN /\ comp_size = 1 + Distinct + nbytes
       /\ \A k \in 0 .. (nbytes - 1) :
             comp_data[1 + Distinct + k] = PackedByte(bits, k)
aab == [i \in 0 .. 2 |-> IF i < 2 THEN 97 ELSE 98]
aab_compressed == [i \in 0 .. 3 |-> IF i = 0 THEN 2 ELSE IF i = 1 THEN 97
                                     ELSE IF i = 2 THEN 98 ELSE 82]

\* C1 as stated: for every message of at most 255 distinct byte values,
\* decompressing the compressed buffer with original_len = length of the
\* message gives the message back
C1_RoundTrip_AnyBytes ==
    (src = "text" /\ pc = "ret" /\ original_len = Length(text)
        /\ Distinct <= 255)
    => Recovered = text

\* C1 amended: for every message without a zero byte (the empty one
\* included), decompressing the compressed buffer with original_len = length
\* of the message gives the message back
C1_RoundTrip ==
    (src = "text" /\ pc = "ret" /\ original_len = Length(text) /\ NoNul)
    => Recovered = text

C1_Witness ==
    /\ src = "text" /\ pc = "ret" /\ original_len = Length(text) /\ NoNul
    /\ Length(text) = MaxLen /\ Distinct = NSyms
    /\ Recovered = text

\* C2 as stated: for every non-empty message the buffer starts with K, the
\* number of distinct byte values, then those K values in rank order
C2_HeaderShape_AnyBytes ==
    (Compressed /\ Length(text) > 0) => HeaderShape

\* C2 amended: for every non-empty message without a zero byte the buffer
\* starts with K, the number of distinct byte values, then those K values
\* once each in rank order (count descending, ties by ascending value)
C2_HeaderShape ==
    (Compressed /\ Length(text) > 0 /\ NoNul) => HeaderShape

C2_Witness ==
    /\ Compressed /\ text = DemoText /\ HeaderShape
    /\ \E r \in 1 .. (Distinct - 1) :
          /\ Count(comp_data[r]) > Count(comp_data[r + 1])
          /\ comp_data[r] > comp_data[r + 1]
    /\ \E r \in 1 .. (Distinct - 1) :
          /\ Count(comp_data[r]) = Count(comp_data[r + 1])
          /\ comp_data[r] < comp_data[r + 1]

\* C3 as stated: for every non-empty message the bytes after the 1 + K header
\* bytes are the MSB-first packing of the codes of the message's symbols in
\* message order, ceil(B/8) bytes, padded with zero bits; "aab" compresses
\* to 02 61 62 52
C3_PayloadLayout_AnyBytes ==
    (Compressed /\ Length(text) > 0)
    => /\ HeaderShape
       /\ PayloadLayout
       /\ (text = aab => comp_data = aab_compressed)

\* C3 amended: the same for every non-empty message without a zero byte
C3_PayloadLayout ==
    (Compressed /\ Length(text) > 0 /\ NoNul)
    => /\ HeaderShape
       /\ PayloadLayout
       /\ (text = aab => comp_data = aab_compressed)

C3_Witness ==
    /\ Compressed /\ text = aab /\ comp_data = aab_compressed
    /\ comp_size = 4 /\ PayloadLayout

\* C4: a message with more than 255 distinct byte values makes compress fail
\* with TooManySymbols, returned to the caller: no buffer, no process exit
C4_TooManySymbols ==
    (src = "text" /\ pc # "compress" /\ Distinct > 255)
    => /\ ret = "TooManySymbols"
       /\ comp_size = 0
       /\ pc # "exit"

\* the stream is malformed: a bad header, or a scanned pair not in the table
HeaderCorrupt ==
    comp_size > 0 /\ (comp_data[0] = 0 \/ comp_size < 1 + comp_data[0])
PairCorrupt ==
    \E i \in 1 .. Len(stderr) : stderr[i] = "Pair not found in code table"

\* C5: on a malformed input decompress stops, returns exactly the symbols
\* produced so far (none for a bad header) and reports CorruptStream
C5_CorruptStream ==
    (Decoded /\ (HeaderCorrupt \/ PairCorrupt))
    => /\ Length(out_text) = out_pos + 1
       /\ out_text[out_pos] = 0
       /\ (HeaderCorrupt => out_pos = 0)
       /\ ret = "CorruptStream"

\* the pairs of a table are pairwise distinct, with m >= 1 and j >= 1
PairsDistinct(table, k) ==
    /\ \A a \in 0 .. (k - 1) : table[a].m >= 1 /\ table[a].j >= 1
    /\ \A a, b \in 0 .. (k - 1) :
          (table[a].m = table[b].m /\ table[a].j = table[b].j) => a = b

\* C6: for every K in 1..255 the codes of any sequence of ranks, written one
\* after another with bw_put_cycle, are scanned back as exactly that
\* sequence of ranks, and the K pairs of the table are pairwise distinct
\* with m >= 1 and j >= 1
C6_SelfSynchronizing ==
    /\ (src = "ranks" /\ pc = "put" /\ ranks = Empty)
       => PairsDistinct(tcodes, tK)
    /\ (src = "ranks" /\ pc = "ret")
       => /\ out_pos = Length(ranks)
          /\ Prefix(out_text, out_pos) = [i \in DOMAIN ranks |-> ranks[i] + 1]
          /\ stderr = <<>>

C6_Witness ==
    /\ src = "ranks" /\ pc = "ret" /\ tK = PermK
    /\ Length(ranks) = tK /\ Range(ranks) = 0 .. (tK - 1)
    /\ ranks[0] = tK - 1
    /\ Prefix(out_text, out_pos) = [i \in DOMAIN ranks |-> ranks[i] + 1]

\* C7: for every K in 1..255 the code length m + j never decreases from one
\* rank to the next, the first code is (1, 1), and the pairs are those of the
\* table built from entries without frequencies
C7_RankMonotonic ==
    (src = "ranks" /\ pc = "put" /\ ranks = Empty)
    => /\ tcodes[0].m = 1 /\ tcodes[0].j = 1
       /\ \A r \in 0 .. (tK - 2) :
             tcodes[r].m + tcodes[r].j <= tcodes[r + 1].m + tcodes[r + 1].j
       /\ LET table == Canonical(tK)
          IN \A r \in 0 .. (tK - 1) :
                tcodes[r].m = table[r].m /\ tcodes[r].j = table[r].j

C7_Witness ==
    /\ src = "ranks" /\ pc = "put" /\ ranks = Empty /\ tK = MAX_K
    /\ tcodes[0].freq = MAX_K
    /\ tcodes[MAX_K - 1].m + tcodes[MAX_K - 1].j = 24

InLoop == pc \in {"while", "zeros", "check", "ones", "lookup", "term"}
InBody == pc \in {"zeros", "check", "ones", "lookup"}
PayloadBits == 8 * (comp_size - 1 - K)

\* C8: for every buffer, size and original_len, throughout the decode loop
\* 0 <= bit_index <= 8 * (size - 1 - K), every bit read lies below that
\* limit, 0 <= out_pos <= max(0, original_len), and the loop body runs only
\* while out_pos < original_len and, at its start, bits are left
C8_DecoderBounds ==
    InLoop
    => /\ 0 <= bit_index /\ bit_index <= PayloadBits
       /\ rd < PayloadBits /\ rd < bit_index + 1
       /\ 0 <= out_pos /\ out_pos <= Max(0, original_len)
       /\ InBody => out_pos < original_len
       /\ (pc = "zeros" /\ m = 0) => bit_index < PayloadBits
       /\ DOMAIN out_text = 0 .. (out_pos - 1)

C8_Witness ==
    /\ src = "raw" /\ pc = "lookup"
    /\ payload_bytes = MaxPayload
    /\ bit_index = PayloadBits /\ rd = PayloadBits - 1
    /\ out_pos = original_len - 1

\* C9: after bw_init and after every bw_put_bit / bw_put_cycle call bit_pos
\* lies in 0..7
C9_BitPosInRange ==
    (src = "bw" /\ pc = "open") => bw.bit_pos \in 0 .. 7

\* C10 as stated: for every non-empty message and every n >= 0, decompressing
\* the compressed buffer with original_len = n gives the first
\* min(n, length) symbols of the message
C10_PrefixDecoding_AnyBytes ==
    (src = "text" /\ pc = "ret" /\ Length(text) > 0 /\ original_len >= 0
        /\ Distinct <= 255)
    => Recovered = Prefix(text, Min(original_len, Length(text)))

\* C10 amended: the same for every non-empty message without a zero byte
C10_PrefixDecoding ==
    (src = "text" /\ pc = "ret" /\ Length(text) > 0 /\ original_len >= 0
        /\ NoNul)
    => /\ Recovered = Prefix(text, Min(original_len, Length(text)))
       /\ out_pos = Min(original_len, Length(text))

\* more symbols asked for than the message holds: the padding bits are
\* scanned as zeros and no one bit follows
C10_Witness ==
    /\ src = "text" /\ pc = "ret" /\ NoNul /\ Length(text) = MaxLen
    /\ original_len > Length(text)
    /\ m > 0 /\ j = 0 /\ bit_index = PayloadBits
    /\ Recovered = text
====
